---- MODULE Spec2Model ----
(***************************************************************************)
(* Book Lesson Extractor (src/app.py): a Streamlit script that is re-run   *)
(* from top to bottom on every user event.  One action of this module is   *)
(* one complete run of the script for one event.                           *)
(*                                                                         *)
(* Texts are sequences of symbols.  A symbol is a one-character string     *)
(* wherever the code looks at characters ("CHAPTER ", "{book_text}",       *)
(* "<markdown>", whitespace); a longer string is an opaque stretch of      *)
(* prose that contains none of those.                                      *)
(***************************************************************************)
EXTENDS Integers, Sequences, FiniteSets, TLC

VARIABLES
    page,                   \* st.sidebar.radio "Select Page" (widget state)
    api_key,                \* st.session_state['api_key']
    uploaded_file_content,  \* st.session_state['uploaded_file_content']
    custom_prompt,          \* st.session_state['custom_prompt']
    uploaded_file,          \* st.sidebar.file_uploader (widget state)
    selectbox,              \* st.sidebar.selectbox "Select Chapter" (widget state)
    text_area,              \* st.text_area "Edit the prompt below:" (widget state)
    out,                    \* what the last run of the script rendered and called
    world                   \* the surroundings: the files the user has, the answers the
                            \* remote model may give, what the user may type

vars == <<page, api_key, uploaded_file_content, custom_prompt,
          uploaded_file, selectbox, text_area, out, world>>

-----------------------------------------------------------------------------
(* Bounds of the model *)

\* a generated page text is the concatenation of at most MaxPieces pieces
MaxPieces == 3
\* a generated remote response text is the concatenation of at most MaxRespPieces pieces
MaxRespPieces == 3

-----------------------------------------------------------------------------
(* Python str operations, as the code uses them *)

Min(S) == CHOOSE x \in S : \A y \in S : x <= y

\* str.strip() with no argument removes these from both ends
Whitespace == {" ", "\n", "\t", "\r"}

\* s.find(sub, from): least 1-based index >= from where sub occurs, 0 if none
Find(s, sub, from) ==
    LET cand == {i \in from..(Len(s) - Len(sub) + 1) :
                    SubSeq(s, i, i + Len(sub) - 1) = sub}
    IN  IF cand = {} THEN 0 ELSE Min(cand)

\* s.split(sep): cut at each occurrence found scanning left to right
RECURSIVE Split(_, _)
Split(s, sep) ==
    LET i == Find(s, sep, 1)
    IN  IF i = 0 THEN <<s>>
        ELSE <<SubSeq(s, 1, i - 1)>> \o Split(SubSeq(s, i + Len(sep), Len(s)), sep)

RECURSIVE LStrip(_)
LStrip(s) ==
    IF s # <<>> /\ Head(s) \in Whitespace THEN LStrip(Tail(s)) ELSE s

RECURSIVE RStrip(_)
RStrip(s) ==
    IF s # <<>> /\ s[Len(s)] \in Whitespace THEN RStrip(SubSeq(s, 1, Len(s) - 1)) ELSE s

\* s.strip()
Strip(s) == RStrip(LStrip(s))

\* sep.join(list)
RECURSIVE Join(_, _)
Join(list, sep) ==
    IF list = <<>> THEN <<>>
    ELSE IF Len(list) = 1 THEN list[1]
    ELSE list[1] \o sep \o Join(Tail(list), sep)

\* s.replace(old, new): every non-overlapping occurrence, left to right
RECURSIVE Replace(_, _, _)
Replace(s, old, new) ==
    LET i == Find(s, old, 1)
    IN  IF i = 0 THEN s
        ELSE SubSeq(s, 1, i - 1) \o new \o Replace(SubSeq(s, i + Len(old), Len(s)), old, new)

Digits == <<"0", "1", "2", "3", "4", "5", "6", "7", "8", "9">>

\* str(i) of a non-negative integer, as the f-string formats it
RECURSIVE DecStr(_)
DecStr(i) ==
    IF i < 10 THEN <<Digits[i + 1]>>
    ELSE DecStr(i \div 10) \o <<Digits[(i % 10) + 1]>>

UpperCase == <<"A","B","C","D","E","F","G","H","I","J","K","L","M",
               "N","O","P","Q","R","S","T","U","V","W","X","Y","Z">>
LowerCase == <<"a","b","c","d","e","f","g","h","i","j","k","l","m",
               "n","o","p","q","r","s","t","u","v","w","x","y","z">>
UpperSet == {UpperCase[k] : k \in 1..Len(UpperCase)}
ToLower == [c \in UpperSet |-> LowerCase[CHOOSE k \in 1..Len(UpperCase) : UpperCase[k] = c]]

\* the case folding re.IGNORECASE compares with
Lower(c) == IF c \in UpperSet THEN ToLower[c] ELSE c

-----------------------------------------------------------------------------
(* Values *)

\* Python's None, and a present value, for a field that may be absent
None == <<>>
Some(x) == <<x>>

\* one thing the script rendered or called: the operation, its argument, what it returned
Effect(op, arg, ret) == [op |-> op, arg |-> arg, ret |-> ret]

\* the literal "CHAPTER " of the split, the re-prefix and the label
Marker == <<"C", "H", "A", "P", "T", "E", "R", " ">>

\* the literal "{book_text}" that get_key_ideas replaces
BookToken == <<"{", "b", "o", "o", "k", "_", "t", "e", "x", "t", "}">>

\* the module-level default_prompt: prose, the token, prose (with the example
\* <markdown> block, which no code inspects in a prompt)
default_prompt ==
    <<"\nHere is the raw text from a book:\n\n<book_text>\n">>
    \o BookToken
    \o <<"\n</book_text>\n\nPlease read through the text carefully. [...] inside <markdown> tags. [...]\n<markdown>\n[...]\n</markdown>\n">>

\* the first entry of chapter_options
ALL == <<"A", "L", "L">>

\* the pattern r'<markdown>(.*?)</markdown>': its two literal parts
OpenTag == <<"<", "m", "a", "r", "k", "d", "o", "w", "n", ">">>
CloseTag == <<"<", "/", "m", "a", "r", "k", "d", "o", "w", "n", ">">>

-----------------------------------------------------------------------------
(* extract_chapters *)

\* A file's bytes are modelled by what pymupdf makes of them: whether open()
\* succeeds, and for each page whether get_text() succeeds and its text.
\* kind "empty" is b'' (zero bytes), which Python treats as false.
PdfPage(ok, text) == [ok |-> ok, text |-> text]
PdfBytes(opens, pages) == [kind |-> "pdf", opens |-> opens, pages |-> pages]
EmptyBytes == [kind |-> "empty", opens |-> FALSE, pages |-> <<>>]

\* the try block reaches the assignment of full_text: open() and every get_text() succeed
Loaded(file_content) ==
    /\ file_content.opens
    /\ \A k \in 1..Len(file_content.pages) : file_content.pages[k].ok

\* current_text when the page loop ends or is left by the exception
RECURSIVE PageTexts(_)
PageTexts(pages) ==
    IF pages = <<>> \/ ~Head(pages).ok THEN <<>>
    ELSE <<Head(pages).text>> \o PageTexts(Tail(pages))

\* mutant: the chapter text is stored without strip()
RECURSIVE ChapterLoopUntrimmed(_, _)
ChapterLoopUntrimmed(rest, i) ==
    IF i > Len(rest) THEN <<>>
    ELSE (IF Strip(rest[i]) # <<>>
          THEN <<[label |-> Marker \o DecStr(i), text |-> Marker \o rest[i]]>>
          ELSE <<>>)
         \o ChapterLoopUntrimmed(rest, i + 1)

\* mutant: the label counts the kept chapters instead of the segments
RECURSIVE ChapterLoopCounted(_, _)
ChapterLoopCounted(rest, i) ==
    IF i > Len(rest) THEN <<>>
    ELSE (IF Strip(rest[i]) # <<>>
          THEN <<[label |-> Marker \o DecStr(Cardinality({j \in 1..i : Strip(rest[j]) # <<>>})),
                  text |-> Marker \o Strip(rest[i])]>>
          ELSE <<>>)
         \o ChapterLoopCounted(rest, i + 1)

\* the loop over enumerate(chapters_list[1:], start=1), from index i on;
\* the dict is kept as the sequence of its items in insertion order
RECURSIVE ChapterLoop(_, _)
ChapterLoop(rest, i) ==
    IF i > Len(rest) THEN <<>>
    ELSE (IF Strip(rest[i]) # <<>>
          THEN <<[label |-> Marker \o DecStr(i), text |-> Marker \o Strip(rest[i])]>>
          ELSE <<>>)
         \o ChapterLoop(rest, i + 1)

\* mutant: the loop runs over chapters_list, the preamble included
KeepFirst(chapters_list) == chapters_list

\* chapters_list[1:]
SkipFirst(chapters_list) == Tail(chapters_list)

\* what "return chapters, full_text" does when the try block did not reach the
\* assignment of full_text: the name is unbound and the return raises
ReturnUnbound == "UnboundLocalError"

extract_chapters(file_content) ==
    IF Loaded(file_content)
    THEN LET full_text == Join(PageTexts(file_content.pages), <<"\n">>)
             chapters_list == Split(full_text, Marker)
         IN  [raised |-> "no",
              effects |-> <<>>,
              chapters |-> ChapterLoop(SkipFirst(chapters_list), 1),
              full_text |-> full_text]
    ELSE [raised |-> ReturnUnbound,
          effects |-> <<Effect("st.error", <<"An error occurred: {e}">>, None)>>,
          chapters |-> <<>>,
          full_text |-> <<>>]

\* list(chapters_dict.keys())
Keys(chapters) == [k \in 1..Len(chapters) |-> chapters[k].label]

\* chapters_dict[label]
Lookup(chapters, label) ==
    chapters[CHOOSE k \in 1..Len(chapters) : chapters[k].label = label].text

-----------------------------------------------------------------------------
(* get_key_ideas *)

\* mutant: the pattern is compiled without re.IGNORECASE
MatchesAtExactCase(s, lit, i) ==
    /\ i + Len(lit) - 1 <= Len(s)
    /\ SubSeq(s, i, i + Len(lit) - 1) = lit

\* re.IGNORECASE: does the literal lit match s at position i
MatchesAt(s, lit, i) ==
    /\ i + Len(lit) - 1 <= Len(s)
    /\ \A k \in 1..Len(lit) : Lower(s[i + k - 1]) = Lower(lit[k])

\* re.DOTALL: "." matches every character, the newline included
Dot(c) == TRUE

\* (.*?)</markdown> from position j: the lazy group grows one character at a
\* time until the closing literal matches; 0 when it never does
RECURSIVE LazyUntilClose(_, _)
LazyUntilClose(s, j) ==
    IF MatchesAt(s, CloseTag, j) THEN j
    ELSE IF j > Len(s) \/ ~Dot(s[j]) THEN 0
    ELSE LazyUntilClose(s, j + 1)

\* re.search: the first start position, left to right, at which the pattern matches
RECURSIVE Search(_, _)
Search(s, i) ==
    IF i > Len(s) THEN None
    ELSE IF MatchesAt(s, OpenTag, i) /\ LazyUntilClose(s, i + Len(OpenTag)) # 0
         THEN Some(SubSeq(s, i + Len(OpenTag), LazyUntilClose(s, i + Len(OpenTag)) - 1))
         ELSE Search(s, i + 1)

\* mutant: without a match the whole answer is taken as the result
KeyIdeasOrAnswer(result) ==
    LET match == Search(result, 1)
    IN  IF match # None THEN Some(Strip(match[1])) ELSE Some(result)

\* lines 92-96: match.group(1).strip(), or None
KeyIdeasOf(result) ==
    LET match == Search(result, 1)
    IN  IF match # None THEN Some(Strip(match[1])) ELSE None

\* What the remote call does is an input: kind "raises" is generate_content
\* raising (text is str(e)), kind "empty" a response without candidates
\* (candidates[0] raises IndexError), kind "text" a response whose first part is text.
RemoteRaises(msg) == [kind |-> "raises", text |-> <<msg>>]
RemoteEmpty == [kind |-> "empty", text |-> <<"list index out of range">>]
RemoteText(t) == [kind |-> "text", text |-> t]

get_key_ideas(chapter_text, key, prompt, response) ==
    LET sent == Replace(prompt, BookToken, chapter_text)
        calls == << Effect("genai.configure", key, None),
                    Effect("model.generate_content", sent, response) >>
    IN  IF response.kind = "text"
        THEN [key_ideas |-> KeyIdeasOf(response.text), effects |-> calls]
        ELSE [key_ideas |-> None,
              effects |-> calls \o
                  <<Effect("st.error", <<"Error in Gemini API call: ">> \o response.text, None)>>]

-----------------------------------------------------------------------------
(* The script, lines 103-172: one run for one set of widget values *)

\* lines 104-111: the session fields of a new session
NewSession ==
    [api_key |-> <<>>, uploaded_file_content |-> None, custom_prompt |-> default_prompt]

\* no selectbox was rendered: Streamlit forgets the state of a widget a run does not render
NoSelect == [options |-> <<>>, value |-> <<>>]

\* no remote call is made in a run without a click on "Extract Lessons"
NoCall == [kind |-> "none", text |-> <<>>]

\* "if st.session_state['uploaded_file_content']:" : None and b'' are false
Truthy(content) == content # None /\ content[1].kind # "empty"

\* mutant: "if not key_ideas" in the place of "if key_ideas is None"
ExtractLessonsTruthy(s, chapter_text, response) ==
    LET got == get_key_ideas(chapter_text, s.api_key, s.custom_prompt, response)
    IN  << Effect("raw_text_placeholder.empty", <<>>, None),
           Effect("extracting_message = st.warning", <<"Extracting key lessons...">>, None) >>
        \o got.effects
        \o << Effect("extracting_message.empty", <<>>, None) >>
        \o (IF got.key_ideas = None \/ got.key_ideas[1] = <<>>
            THEN << Effect("st.error", <<"Could not extract the lessons.">>, None) >>
            ELSE << Effect("st.success", <<"Key lessons extracted!">>, None),
                    Effect("st.markdown", got.key_ideas[1], None) >>)

\* lines 145-162: the body of "if st.sidebar.button('Extract Lessons'):"
ExtractLessons(s, chapter_text, response) ==
    LET got == get_key_ideas(chapter_text, s.api_key, s.custom_prompt, response)
    IN  << Effect("raw_text_placeholder.empty", <<>>, None),
           Effect("extracting_message = st.warning", <<"Extracting key lessons...">>, None) >>
        \o got.effects
        \o << Effect("extracting_message.empty", <<>>, None) >>
        \o (IF got.key_ideas = None
            THEN << Effect("st.error", <<"Could not extract the lessons.">>, None) >>
            ELSE << Effect("st.success", <<"Key lessons extracted!">>, None),
                    Effect("st.markdown", got.key_ideas[1], None) >>)

\* mutant: a click on "Extract Lessons" puts the default prompt back
SessionPromptReset(s, w) ==
    IF w.extract THEN [s EXCEPT !.custom_prompt = default_prompt] ELSE s

\* lines 129-164 assign no session field: the session after the body is the one before it
SessionAfterBody(s, w) == s

\* lines 129-164, after the session fields of this run are set (s), for a file that loaded
HomeBody(s, old_select, w, ec) ==
    LET chapter_options == <<ALL>> \o Keys(ec.chapters)
        selected_chapter ==
            IF w.pick # None THEN w.pick[1]
            ELSE IF old_select.options = chapter_options THEN old_select.value
            ELSE chapter_options[1]
        chapter_text ==
            IF selected_chapter = ALL THEN ec.full_text
            ELSE Lookup(ec.chapters, selected_chapter)
    IN  [selectbox |-> [options |-> chapter_options, value |-> selected_chapter],
         out |->
            << Effect("st.sidebar.selectbox", chapter_options, selected_chapter) >>
            \o (IF selected_chapter # <<>>
                THEN << Effect("raw_text_placeholder.write", chapter_text, None) >>
                ELSE <<>>)
            \o << Effect("st.sidebar.button", <<"Extract Lessons">>, w.extract) >>
            \o (IF w.extract THEN ExtractLessons(s, chapter_text, w.response) ELSE <<>>)]

\* lines 119-164
Home(session, old_select, w) ==
    LET s == [api_key |-> w.key_input,
              uploaded_file_content |->
                  IF w.uploaded_file # None THEN w.uploaded_file
                  ELSE session.uploaded_file_content,
              custom_prompt |-> session.custom_prompt]
        head == << Effect("st.title", <<"Book Lesson Extractor">>, None),
                   Effect("st.sidebar.radio", <<"Select Page">>, w.page),
                   Effect("st.sidebar.file_uploader", <<"Upload a PDF file">>, w.uploaded_file),
                   Effect("st.sidebar.text_input", session.api_key, w.key_input) >>
        ec == extract_chapters(s.uploaded_file_content[1])
        body == HomeBody(s, old_select, w, ec)
    IN  IF ~Truthy(s.uploaded_file_content)
        THEN [session |-> s, selectbox |-> NoSelect, text_area |-> None,
              uploaded_file |-> w.uploaded_file,
              out |-> head \o
                  << Effect("st.write", <<"Please upload a PDF file using the sidebar.">>, None) >>]
        ELSE IF ec.raised # "no"
        THEN [session |-> s, selectbox |-> NoSelect, text_area |-> None,
              uploaded_file |-> w.uploaded_file,
              out |-> head \o ec.effects \o << Effect("raise", <<ec.raised>>, None) >>]
        ELSE [session |-> SessionAfterBody(s, w), selectbox |-> body.selectbox, text_area |-> None,
              uploaded_file |-> w.uploaded_file,
              out |-> head \o body.out]

\* mutant: the prompt is stored on every run of the page, clicked or not
PromptSavedWithoutClick(session, w) ==
    LET prompt == w.prompt_input
    IN  [session |-> [session EXCEPT !.custom_prompt = prompt],
         selectbox |-> NoSelect, text_area |-> Some(prompt), uploaded_file |-> None,
         out |->
            << Effect("st.title", <<"Book Lesson Extractor">>, None),
               Effect("st.sidebar.radio", <<"Select Page">>, w.page),
               Effect("st.markdown", <<"WARNING: You NEED to mention [...] tags in the prompt.">>, None),
               Effect("st.text_area", session.custom_prompt, prompt),
               Effect("st.button", <<"Save">>, w.save) >>
            \o (IF w.save THEN << Effect("st.success", <<"Prompt saved!">>, None) >> ELSE <<>>)]

\* lines 166-172
Prompt(session, w) ==
    LET prompt == w.prompt_input
    IN  [session |-> [session EXCEPT !.custom_prompt = IF w.save THEN prompt ELSE @],
         selectbox |-> NoSelect, text_area |-> Some(prompt), uploaded_file |-> None,
         out |->
            << Effect("st.title", <<"Book Lesson Extractor">>, None),
               Effect("st.sidebar.radio", <<"Select Page">>, w.page),
               Effect("st.markdown", <<"WARNING: You NEED to mention [...] tags in the prompt.">>, None),
               Effect("st.text_area", session.custom_prompt, prompt),
               Effect("st.button", <<"Save">>, w.save) >>
            \o (IF w.save THEN << Effect("st.success", <<"Prompt saved!">>, None) >> ELSE <<>>)]

\* lines 113-172: the page the radio returns decides the branch
Script(session, old_select, w) ==
    IF w.page = "Home" THEN Home(session, old_select, w) ELSE Prompt(session, w)

-----------------------------------------------------------------------------
(* State machine: one action per user event, each a full run of the script *)

Session ==
    [api_key |-> api_key, uploaded_file_content |-> uploaded_file_content,
     custom_prompt |-> custom_prompt]

\* mutant: the key field is created without value=st.session_state['api_key'],
\* so it is empty again when the page comes back
WidgetsKeyNotKept ==
    [page |-> page,
     uploaded_file |-> uploaded_file,
     key_input |-> IF page = "Home" THEN api_key ELSE <<>>,
     pick |-> None,
     extract |-> FALSE,
     response |-> NoCall,
     prompt_input |-> IF text_area # None THEN text_area[1] ELSE custom_prompt,
     save |-> FALSE]

\* what every widget returns when the user touched none of them: the radio,
\* the uploader and the prompt editor keep their state while they are
\* rendered, the key field and a new prompt editor start from their value=
Widgets ==
    [page |-> page,
     uploaded_file |-> uploaded_file,
     key_input |-> api_key,
     pick |-> None,
     extract |-> FALSE,
     response |-> NoCall,
     prompt_input |-> IF text_area # None THEN text_area[1] ELSE custom_prompt,
     save |-> FALSE]

Rerun(w) ==
    LET r == Script(Session, selectbox, w)
    IN  /\ page' = w.page
        /\ api_key' = r.session.api_key
        /\ uploaded_file_content' = r.session.uploaded_file_content
        /\ custom_prompt' = r.session.custom_prompt
        /\ uploaded_file' = r.uploaded_file
        /\ selectbox' = r.selectbox
        /\ text_area' = r.text_area
        /\ out' = r.out
        /\ UNCHANGED world

\* the last run rendered the widget op
Rendered(op) == \E k \in 1..Len(out) : out[k].op = op

SwitchPage(p) ==
    /\ p # page
    /\ Rerun([Widgets EXCEPT !.page = p])

Upload(f) ==
    /\ Rendered("st.sidebar.file_uploader")
    /\ uploaded_file # Some(f)
    /\ Rerun([Widgets EXCEPT !.uploaded_file = Some(f)])

ClearUpload ==
    /\ Rendered("st.sidebar.file_uploader")
    /\ uploaded_file # None
    /\ Rerun([Widgets EXCEPT !.uploaded_file = None])

EditApiKey(k) ==
    /\ Rendered("st.sidebar.text_input")
    /\ k # api_key
    /\ Rerun([Widgets EXCEPT !.key_input = k])

SelectChapter(c) ==
    /\ Rendered("st.sidebar.selectbox")
    /\ \E k \in 1..Len(selectbox.options) : selectbox.options[k] = c
    /\ c # selectbox.value
    /\ Rerun([Widgets EXCEPT !.pick = Some(c)])

ClickExtract(response) ==
    /\ Rendered("st.sidebar.button")
    /\ Rerun([Widgets EXCEPT !.extract = TRUE, !.response = response])

EditPrompt(t) ==
    /\ Rendered("st.text_area")
    /\ text_area # Some(t)
    /\ Rerun([Widgets EXCEPT !.prompt_input = t])

ClickSave ==
    /\ Rendered("st.button")
    /\ Rerun([Widgets EXCEPT !.save = TRUE])

-----------------------------------------------------------------------------
(* Inputs *)

\* every concatenation of at most n pieces of P
RECURSIVE Concats(_, _)
Concats(P, n) ==
    IF n = 0 THEN {<<>>}
    ELSE LET shorter == Concats(P, n - 1)
         IN  shorter \cup {p \o q : p \in P, q \in shorter}

\* every sequence of 1..n elements of S
RECURSIVE SeqsUpTo(_, _)
SeqsUpTo(S, n) ==
    IF n = 0 THEN {}
    ELSE LET shorter == SeqsUpTo(S, n - 1)
         IN  {<<x>> : x \in S} \cup shorter \cup {<<x>> \o q : x \in S, q \in shorter}

\* a generated document has at most MaxPages pages
MaxPages == 2

\* what generated page texts are made of: the marker, the marker without its
\* space, content, whitespace
TextPieces == {Marker, <<"C", "H", "A", "P", "T", "E", "R">>, <<"x">>, <<" ">>, <<"\n">>}

\* "CHAPTER 1 foo CHAPTER 2 bar"
TwoChapterText ==
    Marker \o <<"1", " ", "f", "o", "o", " ">> \o Marker \o <<"2", " ", "b", "a", "r">>

\* "intro CHAPTER 7 seven", a heading number that is not the position
NumberedText == <<"i", "n", "t", "r", "o", " ">> \o Marker \o <<"7", " ", "s", "e", "v", "e", "n">>

OnePage(text) == PdfBytes(TRUE, <<PdfPage(TRUE, text)>>)

\* bytes that are no PDF, a PDF whose second page cannot be read, and b''
BrokenFiles ==
    { PdfBytes(FALSE, <<>>),
      PdfBytes(TRUE, <<PdfPage(TRUE, TwoChapterText), PdfPage(FALSE, <<>>)>>) }

SampleFiles ==
    BrokenFiles \cup
    { EmptyBytes, OnePage(<<>>), OnePage(<<"x", "\n", "y">>), OnePage(TwoChapterText),
      OnePage(NumberedText),
      PdfBytes(TRUE, <<PdfPage(TRUE, <<"a", " ">> \o Marker), PdfPage(TRUE, Marker \o <<" ", "b", "\n">>)>>) }

GeneratedFiles ==
    { OnePage(t) : t \in Concats(TextPieces, MaxPieces) }
    \cup { PdfBytes(TRUE, [k \in 1..Len(ps) |-> PdfPage(TRUE, ps[k])]) :
             ps \in SeqsUpTo({<<>>, <<"x">>, Marker}, MaxPages) }

OpenTagUpper == <<"<", "M", "A", "R", "K", "D", "O", "W", "N", ">">>
CloseTagMixed == <<"<", "/", "M", "a", "r", "k", "D", "o", "w", "n", ">">>
CloseTagUpper == <<"<", "/", "M", "A", "R", "K", "D", "O", "W", "N", ">">>

\* what response texts are made of
RespPieces == {OpenTag, OpenTagUpper, CloseTagMixed, <<"x">>, <<"\n">>}

RemoteFailures ==
    { RemoteRaises("401 API key not valid"), RemoteRaises("503 failed to connect"), RemoteEmpty }

SampleResponses ==
    RemoteFailures \cup
    { RemoteText(<<"n", "o", " ", "t", "a", "g", "s">>),
      RemoteText(OpenTag \o <<"\n", "#", " ", "A", "\n", "-", " ", "b", "\n">> \o CloseTag),
      RemoteText(OpenTagUpper \o <<"x">> \o CloseTagUpper),
      RemoteText(<<"o", "k", " ">> \o OpenTag \o <<" ">> \o CloseTag) }

GeneratedResponses == { RemoteText(t) : t \in Concats(RespPieces, MaxRespPieces) }

\* what the user may type into the prompt editor: the default, a prompt without
\* the token and the tags, a prompt with the token twice
SamplePrompts ==
    { default_prompt,
      <<"Summarise this book.">>,
      BookToken \o <<" and again ">> \o BookToken \o <<" inside <markdown> tags">> }

SampleKeys == { <<>>, <<"AIza-key-1">> }

\* the user has every sample file, types any sample prompt and key, and the
\* remote model may give any sample answer
SampleWorld ==
    [files |-> SampleFiles, responses |-> SampleResponses,
     prompts |-> SamplePrompts, keys |-> SampleKeys]

\* the user has the one file f
FileWorld(f) ==
    [files |-> {f}, responses |-> {RemoteText(OpenTag \o <<"x">> \o CloseTag)},
     prompts |-> {default_prompt}, keys |-> {<<>>}]

\* the remote model gives the one answer r
ResponseWorld(r) ==
    [files |-> {OnePage(NumberedText)}, responses |-> {r},
     prompts |-> {default_prompt}, keys |-> {<<>>}]

Worlds ==
    {SampleWorld}
    \cup {FileWorld(f) : f \in GeneratedFiles}
    \cup {ResponseWorld(r) : r \in GeneratedResponses}

-----------------------------------------------------------------------------
(* Specification *)

FirstRunWidgets ==
    [page |-> "Home", uploaded_file |-> None, key_input |-> <<>>, pick |-> None,
     extract |-> FALSE, response |-> NoCall, prompt_input |-> default_prompt, save |-> FALSE]

\* a new session after the first run of the script
Init ==
    LET r == Script(NewSession, NoSelect, FirstRunWidgets)
    IN  /\ world \in Worlds
        /\ page = "Home"
        /\ api_key = r.session.api_key
        /\ uploaded_file_content = r.session.uploaded_file_content
        /\ custom_prompt = r.session.custom_prompt
        /\ uploaded_file = r.uploaded_file
        /\ selectbox = r.selectbox
        /\ text_area = r.text_area
        /\ out = r.out

Next ==
    \/ \E p \in {"Home", "Prompt"} : SwitchPage(p)
    \/ \E f \in world.files : Upload(f)
    \/ ClearUpload
    \/ \E k \in world.keys : EditApiKey(k)
    \/ \E k \in 1..Len(selectbox.options) : SelectChapter(selectbox.options[k])
    \/ \E r \in world.responses : ClickExtract(r)
    \/ \E t \in world.prompts : EditPrompt(t)
    \/ ClickSave

Spec == Init /\ [][Next]_vars

-----------------------------------------------------------------------------
(* Reading a run, and the vocabulary of the properties *)

\* the places of operation op in a run o
Places(o, op) == {k \in 1..Len(o) : o[k].op = op}

Has(o, op) == Places(o, op) # {}

\* the first effect of operation op in a run o that has one
First(o, op) == o[Min(Places(o, op))]

\* the run showed message msg with operation op
Showed(o, op, msg) == \E k \in Places(o, op) : o[k].arg = msg

\* the run was one in which "Extract Lessons" was clicked
Clicked(o) == \E k \in Places(o, "st.sidebar.button") : o[k].ret = TRUE

\* the session holds a file whose pages could all be read
HasDocument ==
    /\ Truthy(uploaded_file_content)
    /\ uploaded_file_content[1].opens
    /\ \A k \in 1..Len(uploaded_file_content[1].pages) : uploaded_file_content[1].pages[k].ok

\* the document text: the page texts in page order, a newline between two pages
RECURSIVE TextOfPages(_)
TextOfPages(pages) ==
    IF Len(pages) = 0 THEN <<>>
    ELSE IF Len(pages) = 1 THEN pages[1].text
    ELSE TextOfPages(SubSeq(pages, 1, Len(pages) - 1)) \o <<"\n">> \o pages[Len(pages)].text

DocumentText == TextOfPages(uploaded_file_content[1].pages)

\* the places where the literal "CHAPTER " stands in t
MarkerPlaces(t) ==
    {i \in 1..Len(t) : i + 7 <= Len(t) /\ SubSeq(t, i, i + 7) = Marker}

\* the k-th smallest element of a set of numbers
Nth(S, k) == CHOOSE x \in S : Cardinality({y \in S : y < x}) = k - 1

\* the k-th post-marker segment of t: from behind the k-th marker to the next marker or the end
Segment(t, k) ==
    LET M == MarkerPlaces(t)
    IN  SubSeq(t, Nth(M, k) + 8, IF k < Cardinality(M) THEN Nth(M, k + 1) - 1 ELSE Len(t))

\* t without its leading and trailing whitespace
Trim(t) ==
    LET Solid == {i \in 1..Len(t) : t[i] \notin {" ", "\n", "\t", "\r"}}
    IN  IF Solid = {} THEN <<>>
        ELSE SubSeq(t, Min(Solid), CHOOSE i \in Solid : \A j \in Solid : j <= i)

\* the segments of t that become chapters
KeptSegments(t) == {k \in 1..Cardinality(MarkerPlaces(t)) : Trim(Segment(t, k)) # <<>>}

\* the chapter collection the splitter built for the session's document
ChaptersNow == extract_chapters(uploaded_file_content[1]).chapters

-----------------------------------------------------------------------------
(* C1 *)

\* C1: for a document text without any "CHAPTER ", the chapter collection is
\* empty, the selector offers only "ALL", "ALL" is what is selected, the full
\* text is displayed unchanged, and an extraction submits the full text
\* unchanged in the place of the template's token.
C1_NoMarkerOnlyAll ==
    (HasDocument /\ MarkerPlaces(DocumentText) = {} /\ page = "Home") =>
        /\ ChaptersNow = <<>>
        /\ Has(out, "st.sidebar.selectbox")
        /\ First(out, "st.sidebar.selectbox").arg = <<ALL>>
        /\ First(out, "st.sidebar.selectbox").ret = ALL
        /\ First(out, "raw_text_placeholder.write").arg = DocumentText
        /\ (Clicked(out) /\ custom_prompt = default_prompt) =>
              First(out, "model.generate_content").arg =
                  <<default_prompt[1]>> \o DocumentText \o <<default_prompt[Len(default_prompt)]>>

\* a document that has the word CHAPTER but never the literal "CHAPTER ", on extraction
C1_Witness ==
    /\ HasDocument /\ MarkerPlaces(DocumentText) = {} /\ page = "Home"
    /\ Len(DocumentText) >= 8
    /\ Clicked(out)
    /\ Has(out, "model.generate_content")

-----------------------------------------------------------------------------
(* C2 *)

\* C2: the chapter collection lists its entries in document order, has an
\* entry exactly for each post-marker segment whose trimmed text is not
\* empty, drops the preamble, and each entry's text is "CHAPTER " followed by
\* the trimmed segment; "CHAPTER 1 foo CHAPTER 2 bar" yields the two entries
\* "CHAPTER 1" -> "CHAPTER 1 foo" and "CHAPTER 2" -> "CHAPTER 2 bar".
C2_ChaptersInOrder ==
    HasDocument =>
        LET kept == KeptSegments(DocumentText)
        IN  /\ Len(ChaptersNow) = Cardinality(kept)
            /\ \A j \in 1..Len(ChaptersNow) :
                  ChaptersNow[j].text = Marker \o Trim(Segment(DocumentText, Nth(kept, j)))
            /\ DocumentText = TwoChapterText =>
                  ChaptersNow =
                    << [label |-> <<"C", "H", "A", "P", "T", "E", "R", " ", "1">>,
                        text |-> <<"C", "H", "A", "P", "T", "E", "R", " ", "1", " ", "f", "o", "o">>],
                       [label |-> <<"C", "H", "A", "P", "T", "E", "R", " ", "2">>,
                        text |-> <<"C", "H", "A", "P", "T", "E", "R", " ", "2", " ", "b", "a", "r">>] >>
            /\ (page = "Home" /\ First(out, "st.sidebar.selectbox").ret # ALL) =>
                  \E j \in 1..Len(ChaptersNow) :
                      /\ ChaptersNow[j].label = First(out, "st.sidebar.selectbox").ret
                      /\ ChaptersNow[j].text = First(out, "raw_text_placeholder.write").arg

\* a document with a preamble, a segment dropped as blank and a kept chapter
\* whose text had to be trimmed, that chapter selected and displayed
C2_Witness ==
    /\ HasDocument /\ page = "Home"
    /\ MarkerPlaces(DocumentText) # {} /\ 1 \notin MarkerPlaces(DocumentText)
    /\ Cardinality(KeptSegments(DocumentText)) < Cardinality(MarkerPlaces(DocumentText))
    /\ \E k \in KeptSegments(DocumentText) :
          /\ Trim(Segment(DocumentText, k)) # Segment(DocumentText, k)
          /\ First(out, "raw_text_placeholder.write").arg = Marker \o Trim(Segment(DocumentText, k))

-----------------------------------------------------------------------------
(* C9 *)

\* C9: a kept chapter is labelled "CHAPTER k", k the 1-based position of its
\* segment among all post-marker segments, the dropped ones counted: labels
\* increase strictly but may skip numbers ("CHAPTER CHAPTER x" yields the one
\* entry "CHAPTER 2"), and the number written in the heading plays no part.
C9_LabelIsSegmentPosition ==
    HasDocument =>
        LET kept == KeptSegments(DocumentText)
        IN  /\ Len(ChaptersNow) = Cardinality(kept)
            /\ \A j \in 1..Len(ChaptersNow) :
                  ChaptersNow[j].label = Marker \o DecStr(Nth(kept, j))
            /\ \A i, j \in 1..Len(ChaptersNow) :
                  i < j => ChaptersNow[i].label # ChaptersNow[j].label
            /\ DocumentText = Marker \o Marker \o <<"x">> =>
                  Keys(ChaptersNow) = << <<"C", "H", "A", "P", "T", "E", "R", " ", "2">> >>
            /\ DocumentText = NumberedText =>
                  Keys(ChaptersNow) = << <<"C", "H", "A", "P", "T", "E", "R", " ", "1">> >>
            /\ page = "Home" =>
                  First(out, "st.sidebar.selectbox").arg = <<ALL>> \o Keys(ChaptersNow)

\* the selector offers a label whose number is not the count of kept chapters
C9_Witness ==
    /\ HasDocument /\ page = "Home"
    /\ Len(ChaptersNow) = 1
    /\ KeptSegments(DocumentText) = {2}
    /\ First(out, "st.sidebar.selectbox").arg[2] = Marker \o <<"2">>
    /\ First(out, "st.sidebar.selectbox").ret = Marker \o <<"2">>

-----------------------------------------------------------------------------
(* C3 *)

\* C3: when opening or reading the PDF throws, extract_chapters reports the
\* error and returns without raising, and the Home run goes on to the chapter
\* selector instead of aborting.
C3_LoadFailureContinues ==
    (page = "Home" /\ Truthy(uploaded_file_content) /\ ~HasDocument) =>
        /\ Showed(out, "st.error", <<"An error occurred: {e}">>)
        /\ ~Has(out, "raise")
        /\ Has(out, "st.sidebar.selectbox")

-----------------------------------------------------------------------------
(* Vocabulary of a remote answer *)

\* the answer the remote call of run o gave
ResponseOf(o) == First(o, "model.generate_content").ret

\* t with every letter in lower case
Folded(t) == [k \in 1..Len(t) |-> Lower(t[k])]

\* the places in t of an opening and of a closing markdown tag, in any letter case
OpenPlaces(t) == {i \in 1..Len(t) : i + 9 <= Len(t) /\ SubSeq(Folded(t), i, i + 9) = OpenTag}
ClosePlaces(t) == {i \in 1..Len(t) : i + 10 <= Len(t) /\ SubSeq(Folded(t), i, i + 10) = CloseTag}

\* t has an opening tag with a closing tag behind it
HasPair(t) == \E i \in OpenPlaces(t) : \E j \in ClosePlaces(t) : j >= i + 10

\* what stands between the first opening tag and the first closing tag behind it
Inner(t) ==
    LET i == Min(OpenPlaces(t))
        j == Min({c \in ClosePlaces(t) : c >= i + 10})
    IN  SubSeq(t, i + 10, j - 1)

\* the remote call failed or its answer has no tag pair
NoResult(r) == r.kind # "text" \/ ~HasPair(r.text)

CouldNot == <<"Could not extract the lessons.">>

-----------------------------------------------------------------------------
(* C4 *)

\* C4: when the remote answer has no <markdown>...</markdown> pair or the remote
\* call raises, the result is null: the run shows "Could not extract the
\* lessons." as its last message, shows no result, and no exception leaves
\* it; a failed call of any kind (authentication, network, malformed answer)
\* is handled the same way, by its error message and then the same steps.
C4_NoResultReportsError ==
    (Clicked(out) /\ NoResult(ResponseOf(out))) =>
        /\ out[Len(out)] = Effect("st.error", CouldNot, None)
        /\ ~Has(out, "st.success") /\ ~Has(out, "st.markdown") /\ ~Has(out, "raise")
        /\ LET g == Min(Places(out, "model.generate_content"))
           IN  IF ResponseOf(out).kind = "text"
               THEN SubSeq(out, g + 1, Len(out)) =
                      << Effect("extracting_message.empty", <<>>, None),
                         Effect("st.error", CouldNot, None) >>
               ELSE SubSeq(out, g + 1, Len(out)) =
                      << Effect("st.error",
                                <<"Error in Gemini API call: ">> \o ResponseOf(out).text, None),
                         Effect("extracting_message.empty", <<>>, None),
                         Effect("st.error", CouldNot, None) >>

\* an answer that has both tags, but the closing one first
C4_Witness ==
    /\ Clicked(out)
    /\ ResponseOf(out).kind = "text"
    /\ OpenPlaces(ResponseOf(out).text) # {} /\ ClosePlaces(ResponseOf(out).text) # {}
    /\ ~HasPair(ResponseOf(out).text)
    /\ Showed(out, "st.error", CouldNot)

-----------------------------------------------------------------------------
(* C5 *)

\* C5: when the remote answer has an opening and, behind it, a closing
\* markdown tag, in any letter case and with inner content of any number of
\* lines, the result is the inner content without its leading and trailing
\* whitespace, never null: <MARKDOWN>x</MARKDOWN> gives "x".
C5_TaggedAnswerExtracted ==
    (Clicked(out) /\ ~NoResult(ResponseOf(out))) =>
        /\ Has(out, "st.success") /\ Has(out, "st.markdown")
        /\ ~Showed(out, "st.error", CouldNot)
        /\ First(out, "st.markdown").arg = Trim(Inner(ResponseOf(out).text))
        /\ ResponseOf(out).text = OpenTagUpper \o <<"x">> \o CloseTagUpper =>
              First(out, "st.markdown").arg = <<"x">>

\* an answer whose tags are not in lower case and whose inner content has a line break
C5_Witness ==
    /\ Clicked(out) /\ ~NoResult(ResponseOf(out))
    /\ OpenTag \notin {SubSeq(ResponseOf(out).text, i, i + 9) : i \in OpenPlaces(ResponseOf(out).text)}
    /\ \E k \in 1..Len(Inner(ResponseOf(out).text)) : Inner(ResponseOf(out).text)[k] = "\n"
    /\ Has(out, "st.markdown")

-----------------------------------------------------------------------------
(* C8 *)

\* the terminal outcomes a run shows: the error, or the success message
Outcomes(o) ==
    {k \in Places(o, "st.error") : o[k].arg = CouldNot} \cup Places(o, "st.success")

\* C8: a Home run in which "Extract Lessons" is clicked shows the extracting
\* message, clears it, and then shows exactly one outcome: the error exactly
\* when the result is null, otherwise the success message with the rendered
\* result; it happens only with uploaded content present, and a run shows
\* the outcome of its own click only.
C8_OneTerminalOutcome ==
    Clicked(out) =>
        /\ page = "Home" /\ Truthy(uploaded_file_content)
        /\ Cardinality(Places(out, "extracting_message = st.warning")) = 1
        /\ Cardinality(Places(out, "extracting_message.empty")) = 1
        /\ Cardinality(Outcomes(out)) = 1
        /\ LET w == Min(Places(out, "extracting_message = st.warning"))
               e == Min(Places(out, "extracting_message.empty"))
               t == Min(Outcomes(out))
           IN  /\ w < e /\ e < t
               /\ out[t].op = "st.error" <=> NoResult(ResponseOf(out))
               /\ out[t].op = "st.success" =>
                     /\ t + 1 = Len(out)
                     /\ out[t + 1].op = "st.markdown"
               /\ out[t].op = "st.error" => t = Len(out)

\* an extraction that ended in the error although the remote call answered
C8_Witness ==
    /\ Clicked(out)
    /\ ResponseOf(out).kind = "text"
    /\ out[Len(out)] = Effect("st.error", CouldNot, None)
    /\ selectbox.value # ALL

-----------------------------------------------------------------------------
(* C6 *)

\* the run was one in which "Save" was clicked
Saved(o) == \E k \in Places(o, "st.button") : o[k].ret = TRUE

\* C6: a switch of the page toggle leaves the session's prompt template and
\* API key as they were, in either direction; the key changes only in a Home
\* run whose key field returned a text other than the stored one, the
\* template only in a Prompt run.
C6_NavigationKeepsFields ==
    [][ /\ page' # page => (api_key' = api_key /\ custom_prompt' = custom_prompt)
        /\ api_key' # api_key =>
              /\ page = "Home" /\ page' = "Home"
              /\ First(out', "st.sidebar.text_input").arg = api_key
              /\ First(out', "st.sidebar.text_input").ret = api_key'
        /\ custom_prompt' # custom_prompt => (page = "Prompt" /\ page' = "Prompt")
      ]_vars

\* back on Home with a key and a template that were both set before a switch
C6_Witness ==
    /\ page = "Home"
    /\ api_key # <<>>
    /\ custom_prompt # default_prompt
    /\ First(out, "st.sidebar.text_input").ret = api_key

-----------------------------------------------------------------------------
(* C7 *)

\* C7: a click on "Extract Lessons" that follows an extraction on the same
\* selected chapter, with the same remote answer, renders and sends just what
\* the first did, and neither click changes a session field.
C7_SecondExtractionSame ==
    [][ (/\ Clicked(out) /\ Clicked(out')
         /\ ResponseOf(out') = ResponseOf(out)
         /\ First(out', "st.sidebar.selectbox").ret = First(out, "st.sidebar.selectbox").ret)
        => (/\ out' = out
            /\ api_key' = api_key
            /\ custom_prompt' = custom_prompt
            /\ uploaded_file_content' = uploaded_file_content)
      ]_vars

\* a successful extraction of one chapter with a saved prompt and a key, the button still shown
C7_Witness ==
    /\ Clicked(out)
    /\ First(out, "st.sidebar.selectbox").ret # ALL
    /\ custom_prompt # default_prompt /\ api_key # <<>>
    /\ Has(out, "st.markdown")
    /\ Has(out, "st.sidebar.button")

-----------------------------------------------------------------------------
(* C10 *)

\* C10: the prompt template starts as the default prompt and changes only in a
\* run in which Save is clicked, which stores the text the editor holds,
\* whatever it contains; every other run leaves it alone, and an extraction
\* sends the stored template with the selected text in the place of the token.
C10_TemplateChangesOnlyOnSave ==
    /\ custom_prompt = default_prompt
    /\ [][ /\ custom_prompt' # custom_prompt => (page = "Prompt" /\ Saved(out'))
           /\ Saved(out') =>
                 /\ text_area # None
                 /\ custom_prompt' = text_area[1]
                 /\ custom_prompt' = First(out', "st.text_area").ret
           /\ Clicked(out') =>
                 /\ custom_prompt' = custom_prompt
                 /\ First(out', "model.generate_content").arg =
                        Replace(custom_prompt, BookToken,
                                First(out', "raw_text_placeholder.write").arg)
         ]_vars

\* an extraction that sent a saved template that has no token, as it is
C10_Witness ==
    /\ Clicked(out)
    /\ Find(custom_prompt, BookToken, 1) = 0
    /\ First(out, "model.generate_content").arg = custom_prompt
    /\ First(out, "raw_text_placeholder.write").arg # <<>>

====
